---- MODULE Spec2Model ----
(***************************************************************************)
(* State-machine model of the Python Polar API of oso                      *)
(* (languages/python/oso/polar/polar.py): class registration, policy       *)
(* loading with inline-query checking, and authorized_query, which         *)
(* classifies evaluation results and compiles them into a filter plan.     *)
(*                                                                         *)
(* Python values are tagged tuples <<tag, payload>> so that an int and a   *)
(* str are different values that can still be compared: PyInt(0) is not    *)
(* PyStr("0"), exactly as 0 != "0" in Python.  The list a plan keeps its   *)
(* result_sets in is an object of heap, reached through a reference, so    *)
(* that the in-place += of line 338 changes every plan sharing the list.   *)
(* An assert statement is executed only when __debug__ is true.            *)
(***************************************************************************)
EXTENDS Integers, Sequences, FiniteSets, TLC

\* Bounds of the model.
MaxResults == 2     \* longest evaluation-result stream handed to one query
MaxFiles == 2       \* longest filename list of one load_files call
MaxInline == 2      \* most inline queries in one source
MaxQueue == 3       \* most inline queries pending in the engine

None == <<>>
Some(x) == <<x>>

(***************************************************************************)
(* Python values.                                                          *)
(***************************************************************************)
PyInt(n) == <<"int", n>>
PyStr(s) == <<"str", s>>
PyObj(attrs) == <<"obj", attrs>>
Expression(operator, args) == <<"expr", [operator |-> operator, args |-> args]>>
Pattern(tag, fields) == <<"pattern", [tag |-> tag, fields |-> fields]>>
Variable(name) == <<"var", name>>
Relation(kind, other_type, my_field, other_field) ==
    <<"Relation", [kind |-> kind, other_type |-> other_type,
                   my_field |-> my_field, other_field |-> other_field]>>
FieldType(name) == <<"type", name>>

isinstance_Expression(v) == v[1] = "expr"
isinstance_Relation(t) == t[1] = "Relation"
hasattr(c, k) == c[1] = "obj" /\ k \in DOMAIN c[2]
getattr(c, k) == c[2][k]

\* Host.to_polar: a Python value as a Polar term (JSON shape).
to_polar(v) ==
    CASE v[1] = "int" -> [value |-> [Number |-> [Integer |-> v[2]]]]
      [] v[1] = "str" -> [value |-> [String |-> v[2]]]
      [] v[1] = "expr" -> [value |-> [Expression |-> v[2]]]
      [] OTHER -> [value |-> [ExternalInstance |-> v[2]]]

(***************************************************************************)
(* The type registry, host.types: one UserType under both the class and    *)
(* the registered name.                                                    *)
(***************************************************************************)
UserType(cls, name, fields, build_query, exec_query, combine_query) ==
    [name |-> name, cls |-> cls, fields |-> fields, build_query |-> build_query,
     exec_query |-> exec_query, combine_query |-> combine_query]

cache_class(t, cls, name, fields, build_query, exec_query, combine_query) ==
    [k \in DOMAIN t \cup {cls, name} |->
        IF k \in {cls, name}
        THEN UserType(cls, name, fields, build_query, exec_query, combine_query)
        ELSE t[k]]

BuiltinClasses ==
    << <<"bool", "Boolean">>, <<"int", "Integer">>, <<"float", "Float">>,
       <<"list", "List">>, <<"dict", "Dictionary">>, <<"str", "String">>,
       <<"datetime", "Datetime">>, <<"timedelta", "Timedelta">> >>

RECURSIVE RegisterBuiltins(_, _)
RegisterBuiltins(t, n) ==
    IF n = 0 THEN t
    ELSE cache_class(RegisterBuiltins(t, n - 1), BuiltinClasses[n][1],
                     BuiltinClasses[n][2], <<>>, FALSE, FALSE, FALSE)

EmptyRegistry == [k \in {} |-> {}]
InitTypes == RegisterBuiltins(EmptyRegistry, Len(BuiltinClasses))

\* Field declarations (an ordered dict: a sequence of <<name, type>>).
DocFieldsRel ==
    << <<"id", FieldType("Integer")>>,
       <<"folder", Relation("one", "Folder", "name", "name")>>,
       <<"name", FieldType("String")>> >>
DocFieldsFlat == << <<"name", FieldType("String")>>, <<"id", FieldType("Integer")>> >>
FolderFields == << <<"name", FieldType("String")>> >>

\* The registrations the application may make.
RegistrationPool ==
    { [cls |-> "DocCls", name |-> "Doc", fields |-> DocFieldsRel, caps |-> TRUE],
      [cls |-> "DocCls", name |-> "Doc", fields |-> DocFieldsFlat, caps |-> TRUE],
      [cls |-> "DocCls", name |-> "Doc", fields |-> DocFieldsRel, caps |-> FALSE],
      [cls |-> "FolderCls", name |-> "Folder", fields |-> FolderFields, caps |-> TRUE] }

\* The classes a caller may ask authorized_query about.
QueryClasses == {"DocCls", "FolderCls", "int"}

(***************************************************************************)
(* Evaluation results: {"bindings": {var: value}}; a dict is the sequence  *)
(* of its items.  Only "resource" is queried with a constraint binding     *)
(* (line 290), so only "resource" comes back bound to an Expression.       *)
(***************************************************************************)
Result(bindings) == [bindings |-> bindings]

Doc7 == PyObj([id |-> PyInt(7), name |-> PyStr("x")])
Doc8 == PyObj([id |-> PyInt(8), name |-> PyStr("y")])
Alice == PyObj([name |-> PyStr("alice")])

ExprIsa(class_name) ==
    Expression("And", << Expression("Isa", <<Variable("resource"), Pattern(class_name, <<>>)>>) >>)
ExprVia(class_name, rel, field, value) ==
    Expression("And", << Expression("Isa", <<Variable("resource"), Pattern(class_name, <<>>)>>),
                         Expression("Unify", <<value, <<"path", <<rel, field>> >> >>) >>)

RelationFields(typ) == SelectSeq(typ.fields, LAMBDA f : isinstance_Relation(f[2]))

\* What the evaluator may return for a query over the root type typ.
ResultPool(t, typ) ==
    { Result(<< <<"resource", Doc7>> >>),
      Result(<< <<"resource", Doc8>> >>),
      Result(<< <<"resource", ExprIsa(typ.name)>> >>),
      Result(<< <<"actor", Alice>>, <<"resource", ExprIsa(typ.name)>> >>),
      Result(<< <<"actor", Alice>>, <<"resource", Doc7>> >>),
      Result(<<>>) }
    \cup { Result(<< <<"resource", ExprVia(typ.name, f[1], f[2][2].other_field, PyStr("f"))>> >>) :
             f \in { RelationFields(typ)[i] : i \in 1..Len(RelationFields(typ)) } }

RECURSIVE SeqsUpTo(_, _)
SeqsUpTo(S, n) ==
    IF n = 0 THEN {<<>>}
    ELSE SeqsUpTo(S, n - 1) \cup
         { Append(s, x) : s \in { q \in SeqsUpTo(S, n - 1) : Len(q) = n - 1 }, x \in S }

VARIABLES
    types,            \* host.types
    pc,               \* position of the running call; "idle" between calls
    op,               \* the operation running, or last run
    outcome,          \* "none" | "running" | "returned" | "raised"
    error,            \* class of the exception raised, or "none"
    cls,              \* authorized_query: the cls argument
    class_name,       \* authorized_query: line 280
    results,          \* authorized_query: line 284
    ri,               \* authorized_query: index of the for loop of line 299
    complete,         \* authorized_query: line 297
    partial,          \* authorized_query: line 297
    plan,             \* authorized_query: line 307, None before; its result_sets is
                      \* a reference to a list object of heap
    heap,             \* the live list objects holding result_sets, by identity
    debug,            \* __debug__: FALSE when the interpreter runs with -O
    ci,               \* authorized_query: index of the for loop of line 313
    new_result_sets,  \* authorized_query: line 312
    handed,           \* the plan passed to filter_data (line 340), None before
    prev,             \* the last returned compilation of the same inputs (a copy of
                      \* what its plan held when it was returned), or None
    filenames,        \* load_files: the filenames argument
    fi,               \* load_files: index of the for loop of line 100
    sources,          \* load_files / load_str: the sources to load
    inline_queries,   \* the engine's queue of inline queries not yet taken
    ran,              \* check_inline_queries: the queries run by this call, with their outcome
    touched           \* the engine calls made by the running (or last) load

filterVars == <<cls, class_name, results, ri, complete, partial, plan, heap, ci,
                new_result_sets, handed, prev>>
loadVars == <<filenames, fi, sources, inline_queries, ran, touched>>
vars == <<types, debug, pc, op, outcome, error, filterVars, loadVars>>

\* No list object.
EmptyHeap == [i \in {} |-> <<>>]

Init ==
    /\ types = InitTypes
    /\ pc = "idle"
    /\ op = "none"
    /\ outcome = "none"
    /\ error = "none"
    /\ cls = "none"
    /\ class_name = "none"
    /\ results = <<>>
    /\ ri = 1
    /\ complete = <<>>
    /\ partial = <<>>
    /\ plan = None
    /\ heap = EmptyHeap
    /\ debug \in BOOLEAN
    /\ ci = 1
    /\ new_result_sets = <<>>
    /\ handed = None
    /\ prev = None
    /\ filenames = <<>>
    /\ fi = 1
    /\ sources = <<>>
    /\ inline_queries = <<>>
    /\ ran = <<>>
    /\ touched = {}

(***************************************************************************)
(* register_class (lines 231-251).  host.cache_class refuses a name that   *)
(* is already registered, so a registration is made once per name.         *)
(***************************************************************************)
register_class(r) ==
    /\ pc = "idle"
    /\ r.name \notin DOMAIN types
    /\ types' = cache_class(types, r.cls, r.name, r.fields, r.caps, r.caps, r.caps)
    /\ op' = "register_class"
    /\ outcome' = "returned"
    /\ error' = "none"
    /\ prev' = None
    /\ UNCHANGED <<debug, pc, cls, class_name, results, ri, complete, partial, plan, heap, ci,
                   new_result_sets, handed, loadVars>>

(***************************************************************************)
(* The constraint solver and the registry serialization it reads           *)
(* (ffi_polar.build_filter_plan, data_filtering.serialize_types).  One     *)
(* branch per partial result; a constraint through a relation adds a       *)
(* request for the related type, resolved before the root request; the     *)
(* request-ids of a branch are the keys of its requests.  The solver       *)
(* rejects a constraint through a relation to a type the serialization     *)
(* does not hold.  The plan of a call is built for that call: its          *)
(* result_sets is a list object that no earlier plan holds.                *)
(***************************************************************************)
SerializeField(f) ==
    IF isinstance_Relation(f[2])
    THEN <<f[1], [Relation |-> f[2][2]]>>
    ELSE <<f[1], [Base |-> [class_tag |-> f[2][2]]]>>

UserTypeNames(t) == { n \in DOMAIN t : t[n].name = n /\ t[n].fields # <<>> }

serialize_types(t) ==
    [n \in UserTypeNames(t) |-> [i \in 1..Len(t[n].fields) |-> SerializeField(t[n].fields[i])]]

Lookup(d, k) == (CHOOSE i \in 1..Len(d) : d[i][1] = k)

ViaAtoms(term) ==
    SelectSeq(term.value.Expression.args, LAMBDA a : a[2].operator = "Unify")

\* The relation a partial result constrains through; None when it has none.
ViaRelation(ser, p, variable, class_tag) ==
    LET via == ViaAtoms(p.bindings[Lookup(p.bindings, variable)][2])
    IN  IF via = <<>> THEN None
        ELSE Some(ser[class_tag][Lookup(ser[class_tag], via[1][2].args[2][2][1])][2].Relation)

\* Solver failure: a relation to a type that is not registered.
SolverRejects(ser, partial_results, variable, class_tag) ==
    \E i \in 1..Len(partial_results) :
        LET rel == ViaRelation(ser, partial_results[i], variable, class_tag)
        IN  rel # None /\ rel[1].other_type \notin DOMAIN ser

SolverBranch(ser, p, variable, class_tag) ==
    LET term == p.bindings[Lookup(p.bindings, variable)][2]
        via == ViaAtoms(term)
    IN  IF via = <<>>
        THEN [requests |-> [k \in {PyStr("0")} |->
                              [class_tag |-> class_tag, constraints |-> <<>>]],
              resolve_order |-> <<PyStr("0")>>,
              result_id |-> PyStr("0")]
        ELSE LET path == via[1][2].args[2][2]
                 value == via[1][2].args[1]
                 rel == ViaRelation(ser, p, variable, class_tag)[1]
             IN [requests |-> [k \in {PyStr("0"), PyStr("1")} |->
                     IF k = PyStr("1")
                     THEN [class_tag |-> rel.other_type,
                           constraints |-> << [kind |-> "Eq", field |-> path[2],
                                               value |-> [Term |-> to_polar(value)]] >>]
                     ELSE [class_tag |-> class_tag,
                           constraints |-> << [kind |-> "In", field |-> rel.my_field,
                                               value |-> [Ref |-> [field |-> rel.other_field,
                                                                   result_id |-> PyStr("1")]]] >>]],
                 resolve_order |-> <<PyStr("1"), PyStr("0")>>,
                 result_id |-> PyStr("0")]

SolverBranches(ser, partial_results, variable, class_tag) ==
    [i \in 1..Len(partial_results) |->
        SolverBranch(ser, partial_results[i], variable, class_tag)]

\* List objects: heap maps the identity of a live list to what it holds.
NewList(h) == CHOOSE i \in 1..(Cardinality(DOMAIN h) + 1) : i \notin DOMAIN h
Put(h, id, list) == [i \in DOMAIN h \cup {id} |-> IF i = id THEN list ELSE h[i]]

\* Faulty variant: the solver answers a question it was asked before with
\* the plan object it built then.
MemoisedPlan(h, branches) ==
    IF DOMAIN h # {}
    THEN [plan |-> [result_sets |-> CHOOSE i \in DOMAIN h : TRUE], heap |-> h]
    ELSE [plan |-> [result_sets |-> NewList(h)], heap |-> Put(h, NewList(h), branches)]

\* The plan the solver returns holds its branches in a list of its own.
FreshPlan(h, branches) ==
    [plan |-> [result_sets |-> NewList(h)], heap |-> Put(h, NewList(h), branches)]

build_filter_plan(h, ser, partial_results, variable, class_tag) ==
    FreshPlan(h, SolverBranches(ser, partial_results, variable, class_tag))

\* The list of an earlier plan stays alive for as long as its compilation is
\* remembered; any other list is garbage once a new call starts.
Retain(h, p) == IF p = None THEN EmptyHeap ELSE h

(***************************************************************************)
(* authorized_query (lines 264-340).                                       *)
(***************************************************************************)
\* Lines 300-304: every binding of one result, in dict order.
RECURSIVE ClassifyBindings(_, _, _)
ClassifyBindings(b, n, acc) ==
    IF n = 0 THEN acc
    ELSE LET a == ClassifyBindings(b, n - 1, acc)
             k == b[n][1]
             v == b[n][2]
         IN  IF isinstance_Expression(v)
             THEN [a EXCEPT !.partial = Append(@, Result(<< <<k, to_polar(v)>> >>))]
             ELSE [a EXCEPT !.complete = Append(@, v)]

\* Line 316.
HasNoBuildQuery(typ) == ~typ.build_query

\* Line 319: an assert statement is executed only when __debug__ is true;
\* under -O it is compiled out and control falls through to line 321.
AssertFalseRaises == debug

\* Lines 323-327.
EqConstraint(k, c) ==
    [kind |-> "Eq", field |-> k, value |-> [Term |-> to_polar(getattr(c, k))]]

\* Line 328.
AppendConstraint(constraints, constraint) == Append(constraints, constraint)

\* Lines 321-328: the first n fields of typ.fields.
RECURSIVE FieldConstraints(_, _, _)
FieldConstraints(fields, n, c) ==
    IF n = 0 THEN <<>>
    ELSE LET constraints == FieldConstraints(fields, n - 1, c)
         IN  IF ~isinstance_Relation(fields[n][2])
             THEN AppendConstraint(constraints, EqConstraint(fields[n][1], c))
             ELSE constraints

\* getattr(c, k) of line 326 raises AttributeError when c has no attribute k.
MissingAttribute(fields, c) ==
    \E i \in 1..Len(fields) : ~isinstance_Relation(fields[i][2]) /\ ~hasattr(c, fields[i][1])

\* Lines 330-336.
ResultSet(tag, constraints) ==
    [requests |-> [k \in {PyStr("0")} |-> [class_tag |-> tag, constraints |-> constraints]],
     resolve_order |-> <<PyInt(0)>>,
     result_id |-> PyInt(0)]

\* plan["result_sets"]: what the list the plan refers to holds now.
ResultSets(p) == heap[p.result_sets]

\* Line 338: += extends, in place, the list object the plan refers to.
MergeResultSets(h, list, new) == [h EXCEPT ![list] = @ \o new]

\* Faulty variant: the relation fields are removed from the registered types.
StripRelations(t) ==
    [k \in DOMAIN t |->
        [t[k] EXCEPT !.fields = SelectSeq(@, LAMBDA f : ~isinstance_Relation(f[2]))]]

\* The registry as authorized_query leaves it: it only reads host.types.
HostTypesAfterQuery(t) == t

Raise(e) ==
    /\ outcome' = "raised"
    /\ error' = e
    /\ pc' = "idle"

\* Line 280 with cls not registered.
AQ_CallUnregistered(c) ==
    /\ pc = "idle"
    /\ c \notin DOMAIN types
    /\ op' = "authorized_query"
    /\ cls' = c
    /\ class_name' = "none"
    /\ results' = <<>>
    /\ ri' = 1
    /\ complete' = <<>>
    /\ partial' = <<>>
    /\ plan' = None
    /\ ci' = 1
    /\ new_result_sets' = <<>>
    /\ handed' = None
    /\ Raise("KeyError")
    /\ prev' = None
    /\ heap' = Retain(heap, prev')
    /\ UNCHANGED <<types, debug, loadVars>>

\* Lines 278-283: the class is registered and the query starts.
AQ_Call(c) ==
    /\ pc = "idle"
    /\ c \in DOMAIN types
    /\ op' = "authorized_query"
    /\ cls' = c
    /\ class_name' = types[c].name
    /\ results' = <<>>
    /\ ri' = 1
    /\ complete' = <<>>
    /\ partial' = <<>>
    /\ plan' = None
    /\ ci' = 1
    /\ new_result_sets' = <<>>
    /\ handed' = None
    /\ outcome' = "running"
    /\ error' = "none"
    /\ pc' = "query"
    /\ prev' = IF prev # None /\ prev[1].cls = c THEN prev ELSE None
    /\ heap' = Retain(heap, prev')
    /\ types' = HostTypesAfterQuery(types)
    /\ UNCHANGED <<debug, loadVars>>

\* Lines 284-293: list(...) takes the next result the evaluator yields.
AQ_QueryResult(r) ==
    /\ pc = "query"
    /\ Len(results) < MaxResults
    /\ results' = Append(results, r)
    /\ prev' = IF /\ prev # None
                  /\ Len(results) < Len(prev[1].results)
                  /\ prev[1].results[Len(results) + 1] = r
               THEN prev ELSE None
    /\ heap' = Retain(heap, prev')
    /\ types' = HostTypesAfterQuery(types)
    /\ UNCHANGED <<pc, op, outcome, error, cls, class_name, ri, complete, partial, plan, ci,
                   new_result_sets, handed>>
    /\ UNCHANGED <<debug, loadVars>>

\* Lines 284-297: the evaluator has no further result.
AQ_QueryDone ==
    /\ pc = "query"
    /\ complete' = <<>>
    /\ partial' = <<>>
    /\ ri' = 1
    /\ pc' = "classify"
    /\ prev' = IF prev # None /\ prev[1].results = results THEN prev ELSE None
    /\ heap' = Retain(heap, prev')
    /\ types' = HostTypesAfterQuery(types)
    /\ UNCHANGED <<op, outcome, error, cls, class_name, results, plan, ci,
                   new_result_sets, handed>>
    /\ UNCHANGED <<debug, loadVars>>

\* Lines 299-304: one result.
AQ_Classify ==
    /\ pc = "classify"
    /\ ri <= Len(results)
    /\ LET a == ClassifyBindings(results[ri]["bindings"], Len(results[ri]["bindings"]),
                                 [complete |-> complete, partial |-> partial])
       IN  /\ complete' = a.complete
           /\ partial' = a.partial
    /\ ri' = ri + 1
    /\ types' = HostTypesAfterQuery(types)
    /\ UNCHANGED <<debug, loadVars>>
    /\ UNCHANGED <<pc, op, outcome, error, cls, class_name, results, plan, heap, ci,
                   new_result_sets, handed, prev>>

\* Lines 306-307: the solver rejects the partial results.
AQ_SolverError ==
    /\ pc = "classify"
    /\ ri > Len(results)
    /\ SolverRejects(serialize_types(types), partial, "resource", class_name)
    /\ Raise("PolarRuntimeError")
    /\ types' = HostTypesAfterQuery(types)
    /\ UNCHANGED <<debug, loadVars>>
    /\ UNCHANGED <<op, cls, class_name, results, ri, complete, partial, plan, heap, ci,
                   new_result_sets, handed, prev>>

\* Lines 306-312.
AQ_BuildPlan ==
    /\ pc = "classify"
    /\ ri > Len(results)
    /\ ~SolverRejects(serialize_types(types), partial, "resource", class_name)
    /\ LET built == build_filter_plan(heap, serialize_types(types), partial, "resource",
                                      class_name)
       IN  /\ plan' = Some(built.plan)
           /\ heap' = built.heap
    /\ ci' = 1
    /\ new_result_sets' = <<>>
    /\ pc' = IF Len(complete) > 0 THEN "synth" ELSE "filter"
    /\ types' = HostTypesAfterQuery(types)
    /\ UNCHANGED <<debug, loadVars>>
    /\ UNCHANGED <<op, outcome, error, cls, class_name, results, ri, complete, partial,
                   handed, prev>>

\* Lines 315-319: the root type has no build_query and the assert is executed.
AQ_SynthAssert ==
    /\ pc = "synth"
    /\ ci <= Len(complete)
    /\ HasNoBuildQuery(types[class_name])
    /\ AssertFalseRaises
    /\ Raise("AssertionError")
    /\ types' = HostTypesAfterQuery(types)
    /\ UNCHANGED <<debug, loadVars>>
    /\ UNCHANGED <<op, cls, class_name, results, ri, complete, partial, plan, heap, ci,
                   new_result_sets, handed, prev>>

\* Line 326: the complete value lacks a declared attribute.
AQ_SynthAttributeError ==
    /\ pc = "synth"
    /\ ci <= Len(complete)
    /\ ~(HasNoBuildQuery(types[class_name]) /\ AssertFalseRaises)
    /\ MissingAttribute(types[class_name].fields, complete[ci])
    /\ Raise("AttributeError")
    /\ types' = HostTypesAfterQuery(types)
    /\ UNCHANGED <<debug, loadVars>>
    /\ UNCHANGED <<op, cls, class_name, results, ri, complete, partial, plan, heap, ci,
                   new_result_sets, handed, prev>>

\* Lines 313-337: one complete value; reached for a type without build_query
\* when the assert of line 319 is compiled out.
AQ_Synth ==
    /\ pc = "synth"
    /\ ci <= Len(complete)
    /\ ~(HasNoBuildQuery(types[class_name]) /\ AssertFalseRaises)
    /\ ~MissingAttribute(types[class_name].fields, complete[ci])
    /\ LET fields == types[class_name].fields
       IN  new_result_sets' =
               Append(new_result_sets,
                      ResultSet(class_name, FieldConstraints(fields, Len(fields), complete[ci])))
    /\ ci' = ci + 1
    /\ types' = HostTypesAfterQuery(types)
    /\ UNCHANGED <<debug, loadVars>>
    /\ UNCHANGED <<pc, op, outcome, error, cls, class_name, results, ri, complete, partial,
                   plan, heap, handed, prev>>

\* Line 338.
AQ_Merge ==
    /\ pc = "synth"
    /\ ci > Len(complete)
    /\ heap' = MergeResultSets(heap, plan[1].result_sets, new_result_sets)
    /\ pc' = "filter"
    /\ types' = HostTypesAfterQuery(types)
    /\ UNCHANGED <<debug, loadVars>>
    /\ UNCHANGED <<op, outcome, error, cls, class_name, results, ri, complete, partial, plan,
                   ci, new_result_sets, handed, prev>>

\* Line 340: the plan goes to filter_data; the lists of other plans are
\* garbage from here on.
AQ_Return ==
    /\ pc = "filter"
    /\ handed' = plan
    /\ outcome' = "returned"
    /\ pc' = "idle"
    /\ prev' = Some([cls |-> cls, results |-> results, result_sets |-> ResultSets(plan[1])])
    /\ heap' = [i \in {plan[1].result_sets} |-> heap[i]]
    /\ types' = HostTypesAfterQuery(types)
    /\ UNCHANGED <<debug, loadVars>>
    /\ UNCHANGED <<op, error, cls, class_name, results, ri, complete, partial, plan, ci,
                   new_result_sets>>

\* The results the evaluator may yield to the running query.
YieldedResults == IF pc = "query" THEN ResultPool(types, types[class_name]) ELSE {}

authorized_query ==
    \/ \E c \in QueryClasses : AQ_CallUnregistered(c)
    \/ \E c \in QueryClasses : AQ_Call(c)
    \/ \E r \in YieldedResults : AQ_QueryResult(r)
    \/ AQ_QueryDone
    \/ AQ_Classify
    \/ AQ_SolverError
    \/ AQ_BuildPlan
    \/ AQ_SynthAssert
    \/ AQ_SynthAttributeError
    \/ AQ_Synth
    \/ AQ_Merge
    \/ AQ_Return

(***************************************************************************)
(* Files and sources.  A filename is its stem and suffix; the file system  *)
(* says whether it exists and what it holds.  A source is the number of    *)
(* inline queries it states and whether it parses.                         *)
(***************************************************************************)
Source(src, filename) == [src |-> src, filename |-> filename]
Text(inline, parses) == [inline |-> inline, parses |-> parses]
File(stem, suffix, exists, src) == [stem |-> stem, suffix |-> suffix, exists |-> exists, src |-> src]

FilePool ==
    { File("a", ".polar", TRUE, Text(1, TRUE)),
      File("b", ".polar", TRUE, Text(MaxInline, TRUE)),
      File("c", ".txt", TRUE, Text(1, TRUE)),
      File("d", ".polar", FALSE, Text(0, TRUE)) }

StringPool == { Text(n, b) : n \in 0..MaxInline, b \in BOOLEAN }

\* Path(filename).suffix
PathSuffix(f) == f.suffix

\* Faulty variant: the extension is not checked.
FileCheckNoExtension(f) == IF ~f.exists THEN "PolarFileNotFoundError" ELSE "read"

\* Lines 101-112: what the loop body does with one filename.
FileCheck(f) ==
    IF ~(PathSuffix(f) = ".polar") THEN "PolarFileExtensionError"
    ELSE IF ~f.exists THEN "PolarFileNotFoundError"
    ELSE "read"

RECURSIVE SumInline(_)
SumInline(srcs) == IF srcs = <<>> THEN 0 ELSE Head(srcs).src.inline + SumInline(Tail(srcs))

\* The inline queries of a source, in order: <<"new", source index, position>>.
QueriesOf(srcs, i) == [n \in 1..srcs[i].src.inline |-> <<"new", i, n>>]

RECURSIVE QueriesOfAll(_, _)
QueriesOfAll(srcs, i) ==
    IF i = 0 THEN <<>> ELSE QueriesOfAll(srcs, i - 1) \o QueriesOf(srcs, i)

\* Queries left by an earlier load are no longer this load's.
Aged(queue) == [i \in 1..Len(queue) |-> <<"old", queue[i][2], queue[i][3]>>]

\* ffi_polar.next_inline_query()
next_inline_query(queue) == IF queue = <<>> THEN None ELSE Some(Head(queue))

\* Line 141.
IsLoadDone(query) == query = None

\* Faulty variant: a run with no result is taken for a success.
NeverStopIteration(r) == FALSE

\* Lines 145-146: next() of a run with no result raises StopIteration.
RaisesStopIteration(r) == r = "empty"

LoadReturn ==
    /\ outcome' = "returned"
    /\ error' = "none"
    /\ pc' = "idle"

\* Lines 95-96.
load_files_empty ==
    /\ pc = "idle"
    /\ op' = "load_files"
    /\ filenames' = <<>>
    /\ fi' = 1
    /\ sources' = <<>>
    /\ ran' = <<>>
    /\ touched' = {}
    /\ LoadReturn
    /\ UNCHANGED <<types, debug, filterVars, inline_queries>>

\* Lines 93-98.
load_files(fs) ==
    /\ pc = "idle"
    /\ fs # <<>>
    /\ Len(inline_queries) + SumInline(fs) <= MaxQueue
    /\ op' = "load_files"
    /\ filenames' = fs
    /\ fi' = 1
    /\ sources' = <<>>
    /\ ran' = <<>>
    /\ touched' = {}
    /\ outcome' = "running"
    /\ error' = "none"
    /\ pc' = "validate"
    /\ UNCHANGED <<types, debug, filterVars, inline_queries>>

\* Lines 104-105.
LF_ExtensionError ==
    /\ pc = "validate"
    /\ fi <= Len(filenames)
    /\ FileCheck(filenames[fi]) = "PolarFileExtensionError"
    /\ Raise("PolarFileExtensionError")
    /\ UNCHANGED <<types, debug, op, filterVars, loadVars>>

\* Lines 111-112.
LF_NotFound ==
    /\ pc = "validate"
    /\ fi <= Len(filenames)
    /\ FileCheck(filenames[fi]) = "PolarFileNotFoundError"
    /\ Raise("PolarFileNotFoundError")
    /\ UNCHANGED <<types, debug, op, filterVars, loadVars>>

\* Lines 108-110.
LF_Read ==
    /\ pc = "validate"
    /\ fi <= Len(filenames)
    /\ FileCheck(filenames[fi]) = "read"
    /\ sources' = Append(sources, Source(filenames[fi].src, filenames[fi]))
    /\ fi' = fi + 1
    /\ UNCHANGED <<types, debug, pc, op, outcome, error, filterVars, filenames, inline_queries,
                   ran, touched>>

\* Line 114.
LF_LoadSources ==
    /\ pc = "validate"
    /\ fi > Len(filenames)
    /\ pc' = "register_mros"
    /\ UNCHANGED <<types, debug, op, outcome, error, filterVars, loadVars>>

\* Lines 125-130.
load_str(string) ==
    /\ pc = "idle"
    /\ Len(inline_queries) + string.inline <= MaxQueue
    /\ op' = "load_str"
    /\ filenames' = <<>>
    /\ fi' = 1
    /\ sources' = <<Source(string, None)>>
    /\ ran' = <<>>
    /\ touched' = {}
    /\ outcome' = "running"
    /\ error' = "none"
    /\ pc' = "register_mros"
    /\ UNCHANGED <<types, debug, filterVars, inline_queries>>

\* Line 134.
LS_RegisterMros ==
    /\ pc = "register_mros"
    /\ touched' = touched \cup {"register_mros"}
    /\ pc' = "load"
    /\ UNCHANGED <<types, debug, op, outcome, error, filterVars, filenames, fi, sources,
                   inline_queries, ran>>

\* Line 135: a source that does not parse.
LS_LoadError ==
    /\ pc = "load"
    /\ \E i \in 1..Len(sources) : ~sources[i].src.parses
    /\ touched' = touched \cup {"load"}
    /\ Raise("ParserError")
    /\ UNCHANGED <<types, debug, op, filterVars, filenames, fi, sources, inline_queries, ran>>

\* Line 135: the engine queues the inline queries of the sources.
LS_Load ==
    /\ pc = "load"
    /\ \A i \in 1..Len(sources) : sources[i].src.parses
    /\ touched' = touched \cup {"load"}
    /\ inline_queries' = Aged(inline_queries) \o QueriesOfAll(sources, Len(sources))
    /\ pc' = "check"
    /\ UNCHANGED <<types, debug, op, outcome, error, filterVars, filenames, fi, sources, ran>>

\* Lines 138-139: check_inline_queries called by the application itself,
\* outside a load; it works on whatever the engine's queue holds.
check_inline_queries ==
    /\ pc = "idle"
    /\ op' = "check_inline_queries"
    /\ filenames' = <<>>
    /\ fi' = 1
    /\ sources' = <<>>
    /\ ran' = <<>>
    /\ touched' = {}
    /\ outcome' = "running"
    /\ error' = "none"
    /\ pc' = "check"
    /\ UNCHANGED <<types, debug, filterVars, inline_queries>>

\* Lines 140-142: no inline query is left.
CIQ_Done ==
    /\ pc = "check"
    /\ IsLoadDone(next_inline_query(inline_queries))
    /\ touched' = touched \cup {"next_inline_query"}
    /\ LoadReturn
    /\ UNCHANGED <<types, debug, op, filterVars, filenames, fi, sources, inline_queries, ran>>

\* Lines 140-145: the next inline query runs and has a result.
CIQ_Run(r) ==
    /\ pc = "check"
    /\ ~IsLoadDone(next_inline_query(inline_queries))
    /\ ~RaisesStopIteration(r)
    /\ touched' = touched \cup {"next_inline_query", "run"}
    /\ ran' = Append(ran, [query |-> next_inline_query(inline_queries)[1], outcome |-> r])
    /\ inline_queries' = Tail(inline_queries)
    /\ UNCHANGED <<types, debug, pc, op, outcome, error, filterVars, filenames, fi, sources>>

\* Lines 146-148: the next inline query runs and has no result.
CIQ_Failed(r) ==
    /\ pc = "check"
    /\ ~IsLoadDone(next_inline_query(inline_queries))
    /\ RaisesStopIteration(r)
    /\ touched' = touched \cup {"next_inline_query", "run"}
    /\ ran' = Append(ran, [query |-> next_inline_query(inline_queries)[1], outcome |-> r])
    /\ inline_queries' = Tail(inline_queries)
    /\ Raise("InlineQueryFailedError")
    /\ UNCHANGED <<types, debug, op, filterVars, filenames, fi, sources>>

RunOutcomes == {"result", "empty"}

NextLoad ==
    \/ load_files_empty
    \/ \E fs \in SeqsUpTo(FilePool, MaxFiles) : load_files(fs)
    \/ LF_ExtensionError
    \/ LF_NotFound
    \/ LF_Read
    \/ LF_LoadSources
    \/ \E string \in StringPool : load_str(string)
    \/ LS_RegisterMros
    \/ LS_LoadError
    \/ LS_Load
    \/ check_inline_queries
    \/ CIQ_Done
    \/ \E r \in RunOutcomes : CIQ_Run(r)
    \/ \E r \in RunOutcomes : CIQ_Failed(r)

SpecLoad == Init /\ [][NextLoad]_vars

NextFilter ==
    \/ \E r \in RegistrationPool : register_class(r)
    \/ authorized_query

SpecFilter == Init /\ [][NextFilter]_vars

\* The whole API.  The filtering half and the loading half write disjoint
\* variables apart from pc, op, outcome and error, and a call runs to its
\* end before the next one starts.
Next == NextFilter \/ NextLoad

Spec == Init /\ [][Next]_vars

(***************************************************************************)
(* Properties.                                                             *)
(***************************************************************************)
Range(q) == { q[i] : i \in 1..Len(q) }
HasBinding(r, var) == \E i \in 1..Len(r.bindings) : r.bindings[i][1] = var
BindingOf(r, var) == r.bindings[Lookup(r.bindings, var)][2]
NonRelationFields(fields) == SelectSeq(fields, LAMBDA f : ~isinstance_Relation(f[2]))

\* The query ran its classification loop to the end.
Classified == op = "authorized_query" /\ class_name # "none" /\ ri > Len(results)
Returned == op = "authorized_query" /\ pc = "idle" /\ outcome = "returned"

\* The concrete target values of the first n results, in order.
RECURSIVE TargetComplete(_, _)
TargetComplete(rs, n) ==
    IF n = 0 THEN <<>>
    ELSE IF HasBinding(rs[n], "resource") /\ ~isinstance_Expression(BindingOf(rs[n], "resource"))
         THEN Append(TargetComplete(rs, n - 1), BindingOf(rs[n], "resource"))
         ELSE TargetComplete(rs, n - 1)

\* The reduced results of the first n results whose target is an Expression.
RECURSIVE TargetPartial(_, _)
TargetPartial(rs, n) ==
    IF n = 0 THEN <<>>
    ELSE IF HasBinding(rs[n], "resource") /\ isinstance_Expression(BindingOf(rs[n], "resource"))
         THEN Append(TargetPartial(rs, n - 1),
                     Result(<< <<"resource", to_polar(BindingOf(rs[n], "resource"))>> >>))
         ELSE TargetPartial(rs, n - 1)

\* C1 (as claimed): once the results are classified, complete holds exactly
\* the concrete values bound to "resource" and partial exactly the reduced
\* results of the Expressions bound to "resource"; the bindings of any other
\* variable are in neither.
C1_OnlyTargetClassified ==
    Classified =>
        /\ complete = TargetComplete(results, Len(results))
        /\ partial = TargetPartial(results, Len(results))

\* C2 (as claimed): a query whose result stream holds a result with no
\* binding for "resource" ends with an InvalidQueryTypeError, not a plan.
C2_MissingTargetRaises ==
    ( /\ op = "authorized_query" /\ pc = "idle" /\ class_name # "none"
      /\ \E i \in 1..Len(results) : ~HasBinding(results[i], "resource") )
    => (outcome = "raised" /\ error = "InvalidQueryTypeError")

StreamHasComplete(rs) ==
    \E i \in 1..Len(rs) : \E j \in 1..Len(rs[i].bindings) :
        ~isinstance_Expression(rs[i].bindings[j][2])

ExpectedConstraints(fields, c) ==
    LET nr == NonRelationFields(fields)
    IN  [i \in 1..Len(nr) |->
            [kind |-> "Eq", field |-> nr[i][1], value |-> [Term |-> to_polar(c[2][nr[i][1]])]]]

CompleteResult(r) ==
    HasBinding(r, "resource") /\ ~isinstance_Expression(BindingOf(r, "resource"))
PartialResult(r) ==
    HasBinding(r, "resource") /\ isinstance_Expression(BindingOf(r, "resource"))

\* The branch the compiler is to synthesize from the complete value c.
ExpectedBranch(tag, fields, c) ==
    [requests |-> [k \in {PyStr("0")} |->
                     [class_tag |-> tag, constraints |-> ExpectedConstraints(fields, c)]],
     resolve_order |-> <<PyInt(0)>>,
     result_id |-> PyInt(0)]

\* C3 (as claimed): a returned plan compiled from a stream of complete
\* results only has exactly one branch per complete value, the value bound
\* to "resource", and none from the solver; each branch has a single
\* request on the root class tag, with one Eq constraint per non-relation
\* field of the root type, in declaration order, carrying the object's
\* attribute, and no constraint for a Relation field.
C3_OneBranchPerCompleteValue ==
    (Returned /\ \A i \in 1..Len(results) : CompleteResult(results[i])) =>
        LET sets == ResultSets(handed[1])
        IN  /\ Len(sets) = Len(results)
            /\ \A i \in 1..Len(sets) :
                  sets[i] = ExpectedBranch(types[cls].name, types[cls].fields,
                                           BindingOf(results[i], "resource"))

\* The synthesis step by itself: one such branch per value of complete, in
\* the order of complete, after the solver's branches for partial.
SynthesisFollowsComplete ==
    Returned =>
        LET solver == SolverBranches(serialize_types(types), partial, "resource",
                                     types[cls].name)
            sets == ResultSets(handed[1])
        IN  /\ Len(solver) = Len(partial)
            /\ Len(sets) = Len(solver) + Len(complete)
            /\ SubSeq(sets, 1, Len(solver)) = solver
            /\ \A i \in 1..Len(complete) :
                  sets[Len(solver) + i] =
                      ExpectedBranch(types[cls].name, types[cls].fields, complete[i])

\* C4 (as claimed): when the stream holds a complete value and the root type
\* has no build_query, the query ends with the "Can only filter registered
\* classes" error of line 319; no branch is ever appended to the solver's
\* result_sets and the plan is never handed to filter_data.
C4_NoBuildQueryRaises ==
    ( /\ op = "authorized_query" /\ class_name # "none"
      /\ ~types[class_name].build_query
      /\ StreamHasComplete(results) )
    => /\ handed = None
       /\ new_result_sets = <<>>
       /\ plan # None => Len(ResultSets(plan[1])) = Len(partial)
       /\ pc = "idle" => (outcome = "raised" /\ error = "AssertionError")

\* C5 (as claimed): in every branch of a plan handed on, every id of
\* resolve_order is a key of requests, and so is result_id.
C5_IdsAreKeys ==
    handed # None =>
        \A b \in Range(ResultSets(handed[1])) :
            /\ \A id \in Range(b.resolve_order) : id \in DOMAIN b.requests
            /\ b.result_id \in DOMAIN b.requests

\* C6 (as claimed): the result_sets of a returned plan are the solver's
\* branches for the partial results followed by exactly one synthesized
\* branch per complete value, in order; a stream of partial results only
\* yields the solver's branches alone.
C6_SolverThenOnePerComplete ==
    Returned =>
        LET tp == TargetPartial(results, Len(results))
            tc == TargetComplete(results, Len(results))
            solver == SolverBranches(serialize_types(types), tp, "resource", types[cls].name)
            sets == ResultSets(handed[1])
        IN  /\ sets = solver \o [i \in 1..Len(tc) |->
                                   ExpectedBranch(types[cls].name, types[cls].fields, tc[i])]
            /\ (\A i \in 1..Len(results) : PartialResult(results[i])) => sets = solver

\* C7: no step of authorized_query changes the registry.
C7_RegistryUntouched == [][op' = "authorized_query" => types' = types]_vars

C7_Witness ==
    /\ Returned
    /\ "Doc" \in DOMAIN types /\ "Folder" \in DOMAIN types
    /\ RelationFields(types["Doc"]) # <<>>
    /\ Len(complete) > 0

\* C8: a compilation of the inputs of the last returned compilation, with
\* the registry as it was, does not raise, and the plan it is about to hand
\* on holds what the earlier plan held when it was returned: the same
\* branches, with the same constraints and resolve order, although the list
\* the earlier call extended in place is still alive.
C8_Idempotent ==
    (op = "authorized_query" /\ prev # None) =>
        /\ outcome # "raised"
        /\ pc = "filter" => ResultSets(plan[1]) = prev[1].result_sets

C8_Witness ==
    /\ op = "authorized_query" /\ pc = "filter" /\ prev # None
    /\ Len(complete) > 0 /\ Len(partial) > 0
    /\ Cardinality(DOMAIN heap) = 2
    /\ \E l \in DOMAIN heap : l # plan[1].result_sets /\ heap[l] = prev[1].result_sets

ThroughLoadSources == op \in {"load_str", "load_files"} /\ "load" \in touched

\* C9: a load that went through _load_sources returns only with the
\* engine's queue empty and every inline query it queued run with a result;
\* every query run before the last one had a result, and the load ends with
\* InlineQueryFailedError exactly when the last query run had none.
C9_InlineQueriesChecked ==
    ThroughLoadSources =>
        /\ \A i \in 1..(Len(ran) - 1) : ran[i].outcome = "result"
        /\ (pc = "idle" /\ outcome = "returned") =>
              /\ inline_queries = <<>>
              /\ \A i \in 1..Len(ran) : ran[i].outcome = "result"
              /\ \A q \in Range(QueriesOfAll(sources, Len(sources))) :
                    \E i \in 1..Len(ran) : ran[i].query = q
        /\ (pc = "idle" /\ error = "InlineQueryFailedError") <=>
              (ran # <<>> /\ ran[Len(ran)].outcome = "empty")

C9_Witness ==
    /\ ThroughLoadSources /\ pc = "idle" /\ outcome = "returned"
    /\ \E i \in 1..Len(ran) : ran[i].query[1] = "old"
    /\ \E i \in 1..Len(ran) : ran[i].query[1] = "new"

FileBad(f) == f.suffix # ".polar" \/ ~f.exists

\* C10: a load_files call whose list holds a filename without the ".polar"
\* extension or a missing file makes no engine call and ends with
\* PolarFileExtensionError or PolarFileNotFoundError; a call with an empty
\* list returns without an engine call.
C10_ValidatedBeforeLoad ==
    op = "load_files" =>
        /\ (\E i \in 1..Len(filenames) : FileBad(filenames[i])) =>
              /\ touched = {}
              /\ ran = <<>>
              /\ pc \in {"validate", "idle"}
              /\ pc = "idle" =>
                    /\ outcome = "raised"
                    /\ error \in {"PolarFileExtensionError", "PolarFileNotFoundError"}
        /\ filenames = <<>> => (touched = {} /\ pc = "idle" /\ outcome = "returned")

C10_Witness ==
    /\ op = "load_files" /\ pc = "idle" /\ outcome = "raised"
    /\ Len(sources) > 0
    /\ touched = {}
====
